---- MODULE Spec2Model ----
(***************************************************************************)
(* phoenix-sdk: the ladder simulator (ladder_utils.rs) and the versioned   *)
(* order-packet decoder (packet_decoder.rs).                               *)
(*                                                                         *)
(* Both are pure functions.  Each is an operator computed as the code      *)
(* computes it; the specifications draw the inputs in Init and the actions *)
(* apply the public functions to them and record what they return.         *)
(***************************************************************************)
EXTENDS Integers, Sequences, FiniteSets, TLC

VARIABLES
    ladder,    \* the LadderWithAdjustment under simulation
    call,      \* the last MarketSimulator / decoder call: function and arguments
    result,    \* what that call returned (or that it panicked)
    wire,      \* how the bytes were made: the packet encoded, and what was changed
    bytes,     \* the byte slice handed to the packet decoders
    decoded    \* what the last decoder call returned

vars == <<ladder, call, result, wire, bytes, decoded>>

(***************************************************************************)
(* Bounds of the simulator's inputs.                                       *)
(***************************************************************************)
MaxLevels == 2
MaxPrice == 2
MaxLevelSize == 2
MaxTickSize == 2
MaxBaseLotsPerBaseUnit == 2
MaxRequest == 6

Min(a, b) == IF a <= b THEN a ELSE b

Sides == {"Bid", "Ask"}

\* phoenix LadderOrder: one price level (a resting level holds at least one lot)
LadderOrder == [price_in_ticks : 0..MaxPrice, size_in_base_lots : 1..MaxLevelSize]

LevelSeqs == UNION {[1..n -> LadderOrder] : n \in 0..MaxLevels}

\* LadderWithAdjustment: the ladder (Deref) and the two scaling constants
LadderWithAdjustment ==
    [bids : LevelSeqs,
     asks : LevelSeqs,
     tick_size_in_quote_lots_per_base_unit : 1..MaxTickSize,
     base_lots_per_base_unit : 1..MaxBaseLotsPerBaseUnit]

\* SimulationSummaryInLots, as returned; a panic is the other outcome of a call
SimulationSummaryInLots(base, quote) ==
    [status |-> "ok", base_lots_filled |-> base, quote_lots_filled |-> quote]

Panicked(why) == [status |-> "panic", why |-> why]

(***************************************************************************)
(* sell_quote: the loop over self.asks.  st is the loop's state: the two   *)
(* mutable locals, the levels visited so far (what each took and what it   *)
(* left), and the panic, if any, that ended it.  A u64 subtraction below   *)
(* zero is an overflow panic.                                              *)
(***************************************************************************)
AskCost(self, ask) ==
    ask.price_in_ticks * self.tick_size_in_quote_lots_per_base_unit

SellQuoteStepFloorAtOne(self, ask, st) ==
    LET cost == AskCost(self, ask)
        max_base_lots_you_can_buy == (st.remaining_adjusted_quote_lots \div cost) + 1
        amount_lots_to_buy == Min(max_base_lots_you_can_buy, ask.size_in_base_lots)
        left == st.remaining_adjusted_quote_lots - amount_lots_to_buy * cost
    IN  IF cost = 0 THEN [st EXCEPT !.panic = "attempt to divide by zero"]
        ELSE [remaining_adjusted_quote_lots |-> left,
              base_lots |-> st.base_lots + amount_lots_to_buy,
              visited |-> Append(st.visited,
                                 [take |-> amount_lots_to_buy, remaining |-> left]),
              panic |-> IF left < 0 THEN "attempt to subtract with overflow"
                        ELSE "none"]

SellQuoteStep(self, ask, st) ==
    LET cost == AskCost(self, ask)
        max_base_lots_you_can_buy == st.remaining_adjusted_quote_lots \div cost
        amount_lots_to_buy == Min(max_base_lots_you_can_buy, ask.size_in_base_lots)
        left == st.remaining_adjusted_quote_lots - amount_lots_to_buy * cost
    IN  IF cost = 0 THEN [st EXCEPT !.panic = "attempt to divide by zero"]
        ELSE [remaining_adjusted_quote_lots |-> left,
              base_lots |-> st.base_lots + amount_lots_to_buy,
              visited |-> Append(st.visited,
                                 [take |-> amount_lots_to_buy, remaining |-> left]),
              panic |-> IF left < 0 THEN "attempt to subtract with overflow"
                        ELSE "none"]

RECURSIVE SellQuoteLoopWorstFirst(_, _, _)
SellQuoteLoopWorstFirst(self, i, st) ==
    IF i > Len(self.asks) \/ st.panic # "none" THEN st
    ELSE IF st.remaining_adjusted_quote_lots = 0 THEN st
    ELSE SellQuoteLoopWorstFirst(
             self, i + 1,
             SellQuoteStep(self, self.asks[Len(self.asks) + 1 - i], st))

RECURSIVE SellQuoteLoop(_, _, _)
SellQuoteLoop(self, i, st) ==
    IF i > Len(self.asks) \/ st.panic # "none" THEN st
    ELSE IF st.remaining_adjusted_quote_lots = 0 THEN st
    ELSE SellQuoteLoop(self, i + 1, SellQuoteStep(self, self.asks[i], st))

SellQuoteWalk(self, num_lots_quote) ==
    SellQuoteLoop(self, 1,
                  [remaining_adjusted_quote_lots |->
                       num_lots_quote * self.base_lots_per_base_unit,
                   base_lots |-> 0,
                   visited |-> <<>>,
                   panic |-> "none"])

sell_quote_reports_budget(self, num_lots_quote) ==
    LET adjusted_quote_lots == num_lots_quote * self.base_lots_per_base_unit
        st == SellQuoteWalk(self, num_lots_quote)
    IN  IF st.panic # "none" THEN Panicked(st.panic)
        ELSE SimulationSummaryInLots(
                 st.base_lots,
                 adjusted_quote_lots \div self.base_lots_per_base_unit)

sell_quote_reports_leftover(self, num_lots_quote) ==
    LET st == SellQuoteWalk(self, num_lots_quote)
    IN  IF st.panic # "none" THEN Panicked(st.panic)
        ELSE SimulationSummaryInLots(
                 st.base_lots,
                 st.remaining_adjusted_quote_lots \div self.base_lots_per_base_unit)

sell_quote(self, num_lots_quote) ==
    LET adjusted_quote_lots == num_lots_quote * self.base_lots_per_base_unit
        st == SellQuoteWalk(self, num_lots_quote)
        quote_lots_used ==
            (adjusted_quote_lots - st.remaining_adjusted_quote_lots)
                \div self.base_lots_per_base_unit
    IN  IF st.panic # "none" THEN Panicked(st.panic)
        ELSE SimulationSummaryInLots(st.base_lots, quote_lots_used)

(***************************************************************************)
(* sell_base: the loop over self.bids, with the same loop state.            *)
(***************************************************************************)
SellBaseFill(self, bid, st, lots_to_fill) ==
    LET left == st.remaining_base_lots - lots_to_fill
    IN  [remaining_base_lots |-> left,
         adjusted_quote_lots |->
             st.adjusted_quote_lots
                 + lots_to_fill * bid.price_in_ticks
                       * self.tick_size_in_quote_lots_per_base_unit,
         visited |-> Append(st.visited, [take |-> lots_to_fill, remaining |-> left]),
         panic |-> IF left < 0 THEN "attempt to subtract with overflow" ELSE "none"]

SellBaseStepIgnoreSize(self, bid, st) ==
    SellBaseFill(self, bid, st, st.remaining_base_lots)

SellBaseStepNoMin(self, bid, st) ==
    SellBaseFill(self, bid, st, bid.size_in_base_lots)

SellBaseStep(self, bid, st) ==
    SellBaseFill(self, bid, st, Min(st.remaining_base_lots, bid.size_in_base_lots))

RECURSIVE SellBaseLoop(_, _, _)
SellBaseLoop(self, i, st) ==
    IF i > Len(self.bids) \/ st.panic # "none" THEN st
    ELSE IF st.remaining_base_lots = 0 THEN st
    ELSE SellBaseLoop(self, i + 1, SellBaseStep(self, self.bids[i], st))

SellBaseWalk(self, num_lots_base) ==
    SellBaseLoop(self, 1,
                 [remaining_base_lots |-> num_lots_base,
                  adjusted_quote_lots |-> 0,
                  visited |-> <<>>,
                  panic |-> "none"])

sell_base(self, num_lots_base) ==
    LET st == SellBaseWalk(self, num_lots_base)
        base_lots_used == num_lots_base - st.remaining_base_lots
    IN  IF st.panic # "none" THEN Panicked(st.panic)
        ELSE SimulationSummaryInLots(
                 base_lots_used,
                 st.adjusted_quote_lots \div self.base_lots_per_base_unit)

(***************************************************************************)
(* simulate_market_sell: the dispatch on the side.                         *)
(***************************************************************************)
simulate_market_sell_swapped(self, side, size_in_lots) ==
    IF side = "Bid" THEN sell_base(self, size_in_lots)
    ELSE sell_quote(self, size_in_lots)

simulate_market_sell(self, side, size_in_lots) ==
    IF side = "Bid" THEN sell_quote(self, size_in_lots)
    ELSE sell_base(self, size_in_lots)

(***************************************************************************)
(* The simulator's specification: a snapshot, then any calls on it.        *)
(***************************************************************************)
NoCall == [fn |-> "none"]
NoResult == [status |-> "none"]
NoWire == [kind |-> "none"]

Init ==
    /\ ladder \in LadderWithAdjustment
    /\ call = NoCall
    /\ result = NoResult
    /\ wire = NoWire
    /\ bytes = <<>>
    /\ decoded = NoResult

SimulateMarketSell(side, size_in_lots) ==
    /\ call' = [fn |-> "simulate_market_sell", side |-> side, size |-> size_in_lots]
    /\ result' = simulate_market_sell(ladder, side, size_in_lots)
    /\ UNCHANGED <<ladder, wire, bytes, decoded>>

SellQuote(num_lots_quote) ==
    /\ call' = [fn |-> "sell_quote", size |-> num_lots_quote]
    /\ result' = sell_quote(ladder, num_lots_quote)
    /\ UNCHANGED <<ladder, wire, bytes, decoded>>

SellBase(num_lots_base) ==
    /\ call' = [fn |-> "sell_base", size |-> num_lots_base]
    /\ result' = sell_base(ladder, num_lots_base)
    /\ UNCHANGED <<ladder, wire, bytes, decoded>>

Next ==
    \/ \E side \in Sides, size \in 0..MaxRequest : SimulateMarketSell(side, size)
    \/ \E size \in 0..MaxRequest : SellQuote(size)
    \/ \E size \in 0..MaxRequest : SellBase(size)

Spec == Init /\ [][Next]_vars

(***************************************************************************)
(* Borsh, as the derived BorshSerialize / BorshDeserialize of the packet   *)
(* structs use it.  A u64 is 8 little-endian bytes and a u128 is 16; the   *)
(* value is kept as its 32-bit limbs, least significant first.  An enum is *)
(* one byte, the variant's index; a bool is one byte, 0 or 1; an Option is *)
(* one byte, 0 or 1, and then the value if it is 1.                        *)
(***************************************************************************)
LimbBytes == 4
ByteBase == 256

\* bounds of the decoder's inputs: the largest byte written into an input,
\* how many trailing bytes are cut off or appended
MaxByte == 2
MaxCut == 2
MaxPad == 1

Ok(value, rest) == [ok |-> TRUE, value |-> value, rest |-> rest]
Fail(msg) == [ok |-> FALSE, msg |-> msg]

Take(buf, n) == SubSeq(buf, 1, n)
Drop(buf, n) == SubSeq(buf, n + 1, Len(buf))

\* u32::from_le_bytes of a limb
RECURSIVE FromLeBytes(_)
FromLeBytes(bs) ==
    IF bs = <<>> THEN 0 ELSE Head(bs) + ByteBase * FromLeBytes(Tail(bs))

RECURSIVE FromBeBytes(_)
FromBeBytes(bs) ==
    IF bs = <<>> THEN 0
    ELSE bs[Len(bs)] + ByteBase * FromBeBytes(SubSeq(bs, 1, Len(bs) - 1))

RECURSIVE ToLeBytes(_, _)
ToLeBytes(v, n) ==
    IF n = 0 THEN <<>> ELSE <<v % ByteBase>> \o ToLeBytes(v \div ByteBase, n - 1)

RECURSIVE ReadLimbs(_, _)
ReadLimbs(buf, limbs) ==
    IF limbs = 0 THEN <<>>
    ELSE <<FromLeBytes(Take(buf, LimbBytes))>> \o ReadLimbs(Drop(buf, LimbBytes), limbs - 1)

RECURSIVE WriteLimbs(_)
WriteLimbs(v) ==
    IF v = <<>> THEN <<>> ELSE ToLeBytes(Head(v), LimbBytes) \o WriteLimbs(Tail(v))

\* the integers: width in limbs
IntLimbs(ty) == IF ty = "u128" THEN 4 ELSE 2

\* the enums of the phoenix crate: variant names by index
Variants(ty) ==
    IF ty = "Side" THEN <<"Bid", "Ask">>
    ELSE IF ty = "SelfTradeBehavior" THEN <<"Abort", "CancelProvide", "DecrementTake">>
    ELSE <<"PostOnly", "Limit", "ImmediateOrCancel">>

IsInt(ty) == ty \in {"u64", "u128"}
IsEnum(ty) == ty \in {"Side", "SelfTradeBehavior", "OrderPacketEnum"}

None == [some |-> FALSE]
Some(v) == [some |-> TRUE, value |-> v]

DeserializeUintBigEndian(ty, buf) ==
    LET n == IntLimbs(ty) * LimbBytes
    IN  IF Len(buf) < n THEN Fail("Unexpected length of input")
        ELSE Ok([i \in 1..IntLimbs(ty) |->
                     FromBeBytes(SubSeq(buf, LimbBytes * (i - 1) + 1, LimbBytes * i))],
                Drop(buf, n))

DeserializeUint(ty, buf) ==
    LET n == IntLimbs(ty) * LimbBytes
    IN  IF Len(buf) < n THEN Fail("Unexpected length of input")
        ELSE Ok(ReadLimbs(buf, IntLimbs(ty)), Drop(buf, n))

DeserializeEnum(ty, buf) ==
    IF buf = <<>> THEN Fail("Unexpected length of input")
    ELSE IF Head(buf) >= Len(Variants(ty)) THEN Fail("Unexpected variant index")
    ELSE Ok(Variants(ty)[Head(buf) + 1], Tail(buf))

DeserializeBool(buf) ==
    IF buf = <<>> THEN Fail("Unexpected length of input")
    ELSE IF Head(buf) = 0 THEN Ok(FALSE, Tail(buf))
    ELSE IF Head(buf) = 1 THEN Ok(TRUE, Tail(buf))
    ELSE Fail("Invalid bool representation")

DeserializeOption(buf) ==
    IF buf = <<>> THEN Fail("Unexpected length of input")
    ELSE IF Head(buf) = 0 THEN Ok(None, Tail(buf))
    ELSE IF Head(buf) = 1 THEN
        LET v == DeserializeUint("u64", Tail(buf))
        IN  IF v.ok THEN Ok(Some(v.value), v.rest) ELSE v
    ELSE Fail("Invalid Option representation")

DeserializeField(ty, buf) ==
    IF IsInt(ty) THEN DeserializeUint(ty, buf)
    ELSE IF IsEnum(ty) THEN DeserializeEnum(ty, buf)
    ELSE IF ty = "bool" THEN DeserializeBool(buf)
    ELSE DeserializeOption(buf)

\* the derived deserialize of a struct: its fields, in declaration order
RECURSIVE DeserializeStruct(_, _, _)
DeserializeStruct(fields, buf, acc) ==
    IF fields = <<>> THEN Ok(acc, buf)
    ELSE LET f == DeserializeField(Head(fields).ty, buf)
         IN  IF ~f.ok THEN f
             ELSE DeserializeStruct(Tail(fields), f.rest,
                                    acc @@ (Head(fields).name :> f.value))

EmptyStruct == [n \in {} |-> 0]

try_from_slice_prefix(fields, buf) ==
    LET r == DeserializeStruct(fields, buf, EmptyStruct)
    IN  IF ~r.ok THEN r ELSE Ok(r.value, <<>>)

\* BorshDeserialize::try_from_slice: everything must be read
try_from_slice(fields, buf) ==
    LET r == DeserializeStruct(fields, buf, EmptyStruct)
    IN  IF ~r.ok THEN r
        ELSE IF r.rest # <<>> THEN Fail("Not all bytes read")
        ELSE r

SerializeField(ty, v) ==
    IF IsInt(ty) THEN WriteLimbs(v)
    ELSE IF IsEnum(ty) THEN
        <<(CHOOSE i \in 1..Len(Variants(ty)) : Variants(ty)[i] = v) - 1>>
    ELSE IF ty = "bool" THEN <<IF v THEN 1 ELSE 0>>
    ELSE IF v.some THEN <<1>> \o WriteLimbs(v.value) ELSE <<0>>

\* the derived serialize of a struct
RECURSIVE SerializeStruct(_, _)
SerializeStruct(fields, v) ==
    IF fields = <<>> THEN <<>>
    ELSE SerializeField(Head(fields).ty, v[Head(fields).name])
             \o SerializeStruct(Tail(fields), v)

(***************************************************************************)
(* The packet structs: field names and types, in declaration order.        *)
(***************************************************************************)
F(name, ty) == [name |-> name, ty |-> ty]

ExpiryFields ==
    <<F("last_valid_slot", "Option<u64>"),
      F("last_valid_unix_timestamp_in_seconds", "Option<u64>")>>

DeprecatedPostOnlyPacket ==
    <<F("side", "Side"), F("price_in_ticks", "u64"), F("num_base_lots", "u64"),
      F("client_order_id", "u128"), F("reject_post_only", "bool"),
      F("use_only_deposited_funds", "bool")>>

PostOnlyPacket == DeprecatedPostOnlyPacket \o ExpiryFields

DeprecatedLimitPacket ==
    <<F("side", "Side"), F("price_in_ticks", "u64"), F("num_base_lots", "u64"),
      F("self_trade_behavior", "SelfTradeBehavior"), F("match_limit", "Option<u64>"),
      F("client_order_id", "u128"), F("use_only_deposited_funds", "bool")>>

LimitPacket == DeprecatedLimitPacket \o ExpiryFields

DeprecatedImmediateOrCancelPacket ==
    <<F("side", "Side"), F("price_in_ticks", "Option<u64>"),
      F("num_base_lots", "u64"), F("num_quote_lots", "u64"),
      F("min_base_lots_to_fill", "u64"), F("min_quote_lots_to_fill", "u64"),
      F("self_trade_behavior", "SelfTradeBehavior"), F("match_limit", "Option<u64>"),
      F("client_order_id", "u128"), F("use_only_deposited_funds", "bool")>>

ImmediateOrCancelPacket == DeprecatedImmediateOrCancelPacket \o ExpiryFields

OrderPacketEnum == <<F("tag", "OrderPacketEnum")>>

(***************************************************************************)
(* The three decoders.  A Result is Ok(packet) or Err(error); the error is *)
(* an anyhow message of this file or the io::Error borsh returned.         *)
(***************************************************************************)
DecodedOk(packet) == [status |-> "ok", packet |-> packet]
Err(from, msg) == [status |-> "err", from |-> from, msg |-> msg]

WithZeroExpiry(deprecated_packet) ==
    deprecated_packet
        @@ ("last_valid_slot" :> Some(<<0, 0>>))
        @@ ("last_valid_unix_timestamp_in_seconds" :> Some(<<0, 0>>))

\* the current packet built from a deprecated one
WithNoExpiry(deprecated_packet) ==
    deprecated_packet
        @@ ("last_valid_slot" :> None)
        @@ ("last_valid_unix_timestamp_in_seconds" :> None)

\* the body of a decoder: own is the decoder's variant, current and
\* deprecated its two structs, mismatch the message of its catch-all arm
DecodeDeprecatedOnly(input, own, current, deprecated, mismatch) ==
    IF input = <<>> THEN Err("anyhow", "Invalid packet")
    ELSE LET tag == try_from_slice(OrderPacketEnum, <<Head(input)>>)
             body == Tail(input)
             deprecated_packet_result == try_from_slice(deprecated, body)
         IN  IF ~tag.ok THEN Err("borsh", tag.msg)
             ELSE IF tag.value.tag # own THEN Err("anyhow", mismatch)
             ELSE IF ~deprecated_packet_result.ok
                  THEN Err("borsh", deprecated_packet_result.msg)
             ELSE DecodedOk(WithNoExpiry(deprecated_packet_result.value))

DecodeAnyTag(input, own, current, deprecated, mismatch) ==
    IF input = <<>> THEN Err("anyhow", "Invalid packet")
    ELSE LET body == Tail(input)
             packet == try_from_slice(current, body)
             deprecated_packet_result == try_from_slice(deprecated, body)
         IN  IF packet.ok THEN DecodedOk(packet.value)
             ELSE IF ~deprecated_packet_result.ok
                  THEN Err("borsh", deprecated_packet_result.msg)
             ELSE DecodedOk(WithNoExpiry(deprecated_packet_result.value))

Decode(input, own, current, deprecated, mismatch) ==
    IF input = <<>> THEN Err("anyhow", "Invalid packet")
    ELSE LET tag == try_from_slice(OrderPacketEnum, <<Head(input)>>)
             body == Tail(input)
             packet == try_from_slice(current, body)
             deprecated_packet_result == try_from_slice(deprecated, body)
         IN  IF ~tag.ok THEN Err("borsh", tag.msg)
             ELSE IF tag.value.tag # own THEN Err("anyhow", mismatch)
             ELSE IF packet.ok THEN DecodedOk(packet.value)
             ELSE IF ~deprecated_packet_result.ok
                  THEN Err("borsh", deprecated_packet_result.msg)
             ELSE DecodedOk(WithNoExpiry(deprecated_packet_result.value))

decode_post_only_packet_data(input) ==
    Decode(input, "PostOnly", PostOnlyPacket, DeprecatedPostOnlyPacket,
           "Invalid Post-Only packet")

decode_limit_packet_data(input) ==
    Decode(input, "Limit", LimitPacket, DeprecatedLimitPacket,
           "Invalid Post-Only packet")

decode_ioc_packet_data(input) ==
    Decode(input, "ImmediateOrCancel", ImmediateOrCancelPacket,
           DeprecatedImmediateOrCancelPacket, "Invalid Immediate or Cancel packet")

(***************************************************************************)
(* The decoder's specification.  The input is the encoding of a packet of  *)
(* one kind under one schema, behind a tag byte, as it is or changed: cut  *)
(* short, padded, with another tag, or with one byte overwritten.          *)
(***************************************************************************)
Kinds == {"PostOnly", "Limit", "ImmediateOrCancel"}

Current(kind) ==
    IF kind = "PostOnly" THEN PostOnlyPacket
    ELSE IF kind = "Limit" THEN LimitPacket
    ELSE ImmediateOrCancelPacket

Deprecated(kind) ==
    IF kind = "PostOnly" THEN DeprecatedPostOnlyPacket
    ELSE IF kind = "Limit" THEN DeprecatedLimitPacket
    ELSE DeprecatedImmediateOrCancelPacket

Schema(kind, schema) == IF schema = "current" THEN Current(kind) ELSE Deprecated(kind)

\* the values a field of the encoded packets takes, by name and type
FieldValues(f) ==
    IF f.ty = "Side" THEN {"Bid", "Ask"}
    ELSE IF f.ty = "SelfTradeBehavior" THEN {"Abort", "CancelProvide", "DecrementTake"}
    ELSE IF f.ty = "bool" THEN BOOLEAN
    ELSE IF f.ty = "u128" THEN {<<513, 0, 1, 2>>}
    ELSE IF f.name = "price_in_ticks" /\ f.ty = "u64" THEN {<<258, 1>>}
    ELSE IF f.name = "price_in_ticks" THEN {None, Some(<<258, 1>>)}
    ELSE IF f.name = "num_base_lots" THEN {<<2, 0>>}
    ELSE IF f.name = "num_quote_lots" THEN {<<0, 2>>}
    ELSE IF f.name = "min_base_lots_to_fill" THEN {<<1, 0>>}
    ELSE IF f.name = "min_quote_lots_to_fill" THEN {<<0, 1>>}
    ELSE IF f.name = "match_limit" THEN {None, Some(<<1, 1>>)}
    ELSE IF f.name = "last_valid_slot" THEN {None, Some(<<65536, 0>>)}
    ELSE {None, Some(<<16777217, 0>>)}

RECURSIVE PacketsOf(_)
PacketsOf(fields) ==
    IF fields = <<>> THEN {EmptyStruct}
    ELSE {p @@ (Head(fields).name :> v) :
              p \in PacketsOf(Tail(fields)), v \in FieldValues(Head(fields))}

TagOf(kind) == SerializeField("OrderPacketEnum", kind)

Encode(kind, schema, value) == TagOf(kind) \o SerializeStruct(Schema(kind, schema), value)

\* one tag past the last variant
TagBytes == 0..Len(Variants("OrderPacketEnum"))

Changes(encoded) ==
    {[op |-> "none"]}
        \cup {[op |-> "cut", n |-> n] : n \in 1..MaxCut}
        \cup {[op |-> "keep", n |-> n] : n \in 0..MaxCut}
        \cup {[op |-> "pad", with |-> w] :
                  w \in UNION {[1..n -> 0..MaxByte] : n \in 1..MaxPad}}
        \cup {[op |-> "tag", byte |-> b] : b \in TagBytes \ {encoded[1]}}
        \cup UNION {{[op |-> "set", at |-> i, byte |-> b] :
                         b \in (0..MaxByte) \ {encoded[i]}} : i \in 2..Len(encoded)}

Apply(encoded, change) ==
    IF change.op = "cut" THEN Take(encoded, Len(encoded) - change.n)
    ELSE IF change.op = "keep" THEN Take(encoded, change.n)
    ELSE IF change.op = "pad" THEN encoded \o change.with
    ELSE IF change.op = "tag" THEN <<change.byte>> \o Tail(encoded)
    ELSE IF change.op = "set" THEN [encoded EXCEPT ![change.at] = change.byte]
    ELSE encoded

DecoderInit ==
    /\ ladder = [bids |-> <<>>, asks |-> <<>>,
                 tick_size_in_quote_lots_per_base_unit |-> 1,
                 base_lots_per_base_unit |-> 1]
    /\ call = NoCall
    /\ result = NoResult
    /\ \E kind \in Kinds, schema \in {"current", "deprecated"} :
         \E value \in PacketsOf(Schema(kind, schema)) :
           \E change \in Changes(Encode(kind, schema, value)) :
              /\ wire = [kind |-> kind, schema |-> schema, value |-> value,
                         change |-> change]
              /\ bytes = Apply(Encode(kind, schema, value), change)
    /\ decoded = NoResult

DecodePostOnlyPacketData ==
    /\ call' = [fn |-> "decode_post_only_packet_data"]
    /\ decoded' = decode_post_only_packet_data(bytes)
    /\ UNCHANGED <<ladder, result, wire, bytes>>

DecodeLimitPacketData ==
    /\ call' = [fn |-> "decode_limit_packet_data"]
    /\ decoded' = decode_limit_packet_data(bytes)
    /\ UNCHANGED <<ladder, result, wire, bytes>>

DecodeIocPacketData ==
    /\ call' = [fn |-> "decode_ioc_packet_data"]
    /\ decoded' = decode_ioc_packet_data(bytes)
    /\ UNCHANGED <<ladder, result, wire, bytes>>

DecoderNext ==
    \/ DecodePostOnlyPacketData
    \/ DecodeLimitPacketData
    \/ DecodeIocPacketData

DecoderSpec == DecoderInit /\ [][DecoderNext]_vars

(***************************************************************************)
(* Properties of the simulator.                                            *)
(***************************************************************************)
IsSimulate == call.fn = "simulate_market_sell"

\* the call reached sell_quote / sell_base, directly or through the dispatch
ViaSellQuote == call.fn = "sell_quote" \/ (IsSimulate /\ call.side = "Bid")
ViaSellBase == call.fn = "sell_base" \/ (IsSimulate /\ call.side = "Ask")

RECURSIVE SumSizes(_)
SumSizes(levels) ==
    IF levels = <<>> THEN 0
    ELSE Head(levels).size_in_base_lots + SumSizes(Tail(levels))

\* sum over the levels of size * price * tick_size, in scaled quote lots
RECURSIVE SumScaledQuote(_, _)
SumScaledQuote(levels, tick) ==
    IF levels = <<>> THEN 0
    ELSE Head(levels).size_in_base_lots * Head(levels).price_in_ticks * tick
             + SumScaledQuote(Tail(levels), tick)

QuoteDepth(self, levels) ==
    SumScaledQuote(levels, self.tick_size_in_quote_lots_per_base_unit)
        \div self.base_lots_per_base_unit

PositivePrices(levels) == \A i \in 1..Len(levels) : levels[i].price_in_ticks > 0

Ascending(levels) ==
    \A i \in 1..Len(levels) - 1 : levels[i].price_in_ticks <= levels[i + 1].price_in_ticks

Descending(levels) ==
    \A i \in 1..Len(levels) - 1 : levels[i].price_in_ticks >= levels[i + 1].price_in_ticks

\* the ladder a market produces: best price first on both sides, no free level
WellFormedLadder ==
    /\ Descending(ladder.bids) /\ Ascending(ladder.asks)
    /\ PositivePrices(ladder.bids) /\ PositivePrices(ladder.asks)

\* C1: simulate_market_sell(Bid, s) returns what sell_quote(s) returns and
\* simulate_market_sell(Ask, s) returns what sell_base(s) returns.
C1_Dispatch ==
    IsSimulate =>
        /\ call.side = "Bid" => result = sell_quote(ladder, call.size)
        /\ call.side = "Ask" => result = sell_base(ladder, call.size)

\* a Bid call on a ladder where the two walks give different summaries
C1_Witness ==
    /\ IsSimulate /\ call.side = "Bid"
    /\ result.status = "ok" /\ result.base_lots_filled > 0
    /\ result # sell_base(ladder, call.size)

\* C2: size 0 (any ladder) or a ladder without levels (any size) gives {0, 0}
\* on either side.
C2_ZeroSizeOrEmptyLadder ==
    (IsSimulate /\ (call.size = 0 \/ (ladder.bids = <<>> /\ ladder.asks = <<>>)))
        => result = SimulationSummaryInLots(0, 0)

\* a non-zero request against the ladder without levels
C2_Witness ==
    /\ IsSimulate /\ call.side = "Bid" /\ call.size > 0
    /\ ladder.bids = <<>> /\ ladder.asks = <<>>
    /\ result = SimulationSummaryInLots(0, 0)

\* C3: on a well-formed ladder both fills are non-decreasing in the size:
\* every smaller request fills no more than the one made.
C3_Monotonic ==
    (IsSimulate /\ WellFormedLadder) =>
        /\ result.status = "ok"
        /\ \A s1 \in 0..call.size :
               LET r1 == simulate_market_sell(ladder, call.side, s1)
               IN  /\ r1.status = "ok"
                   /\ r1.base_lots_filled <= result.base_lots_filled
                   /\ r1.quote_lots_filled <= result.quote_lots_filled

\* a Bid request that fills strictly more than a smaller one, with budget
\* lost to rounding
C3_Witness ==
    /\ IsSimulate /\ WellFormedLadder /\ call.side = "Bid" /\ call.size > 1
    /\ result.status = "ok"
    /\ result.quote_lots_filled < call.size
    /\ result.base_lots_filled
           > simulate_market_sell(ladder, "Bid", call.size - 1).base_lots_filled

\* C4 as stated: the base fill never exceeds the depth of the consumed side,
\* and a size above the depth returns the whole depth, on either side, with
\* no error.
C4_SaturationAnyLadder ==
    IsSimulate =>
        /\ result.status = "ok"
        /\ call.side = "Ask" =>
               /\ result.base_lots_filled <= SumSizes(ladder.bids)
               /\ call.size > SumSizes(ladder.bids) =>
                      result.base_lots_filled = SumSizes(ladder.bids)
        /\ call.side = "Bid" =>
               /\ result.base_lots_filled <= SumSizes(ladder.asks)
               /\ call.size > QuoteDepth(ladder, ladder.asks) =>
                      /\ result.quote_lots_filled = QuoteDepth(ladder, ladder.asks)
                      /\ result.base_lots_filled = SumSizes(ladder.asks)

\* C4 (amended): the same, with the Bid side restricted to ladders whose ask
\* prices are all positive; every summary returned stays within the depth.
C4_Saturation ==
    IsSimulate =>
        /\ call.side = "Ask" =>
               /\ result.status = "ok"
               /\ result.base_lots_filled <= SumSizes(ladder.bids)
               /\ call.size > SumSizes(ladder.bids) =>
                      /\ result.base_lots_filled = SumSizes(ladder.bids)
                      /\ result.quote_lots_filled = QuoteDepth(ladder, ladder.bids)
        /\ (call.side = "Bid" /\ result.status = "ok") =>
               result.base_lots_filled <= SumSizes(ladder.asks)
        /\ (call.side = "Bid" /\ PositivePrices(ladder.asks)) =>
               /\ result.status = "ok"
               /\ call.size > QuoteDepth(ladder, ladder.asks) =>
                      /\ result.quote_lots_filled = QuoteDepth(ladder, ladder.asks)
                      /\ result.base_lots_filled = SumSizes(ladder.asks)

\* a Bid request above the quote depth of two ask levels, both consumed
C4_Witness ==
    /\ IsSimulate /\ call.side = "Bid" /\ PositivePrices(ladder.asks)
    /\ Len(ladder.asks) = 2
    /\ call.size > QuoteDepth(ladder, ladder.asks) + 1
    /\ result.status = "ok"
    /\ result.base_lots_filled = SumSizes(ladder.asks)
    /\ result.quote_lots_filled = QuoteDepth(ladder, ladder.asks)

\* C5: with positive ask prices, sell_quote never reports more quote lots than
\* its budget and its remaining scaled budget is never negative after a
\* level; sell_base never reports more base lots than requested.
C5_NeverOverspends ==
    /\ (ViaSellQuote /\ PositivePrices(ladder.asks)) =>
           /\ result.status = "ok"
           /\ result.quote_lots_filled <= call.size
           /\ LET visited == SellQuoteWalk(ladder, call.size).visited
              IN  \A i \in 1..Len(visited) : visited[i].remaining >= 0
    /\ ViaSellBase =>
           /\ result.status = "ok"
           /\ result.base_lots_filled <= call.size

\* a sell_quote call that buys part of a level and leaves budget unspent
C5_Witness ==
    /\ call.fn = "sell_quote" /\ PositivePrices(ladder.asks)
    /\ result.status = "ok"
    /\ result.quote_lots_filled < call.size
    /\ LET visited == SellQuoteWalk(ladder, call.size).visited
       IN  \E i \in 1..Len(visited) :
               /\ visited[i].take > 0
               /\ visited[i].take < ladder.asks[i].size_in_base_lots
               /\ visited[i].remaining > 0

\* C6 as stated: with nonzero scaling constants every call returns a
\* summary, whatever the prices of the levels.
C6_TotalAnyPrice ==
    call.fn # "none" => result.status = "ok"

\* C6 (amended): sell_base returns a summary on every ladder; sell_quote
\* returns one unless its walk reaches an ask level of price 0 with budget
\* left, where it panics on the division; no subtraction goes below zero.
C6_TotalOnPositiveAsks ==
    /\ ViaSellBase => result.status = "ok"
    /\ ViaSellQuote =>
           /\ PositivePrices(ladder.asks) => result.status = "ok"
           /\ result.status = "panic" => result.why = "attempt to divide by zero"

\* sell_quote buying from positive-price asks on a ladder that also holds a
\* bid level of price 0
C6_Witness ==
    /\ call.fn = "sell_quote" /\ call.size > 0
    /\ PositivePrices(ladder.asks) /\ ~PositivePrices(ladder.bids)
    /\ result.status = "ok" /\ result.base_lots_filled > 0

(***************************************************************************)
(* Properties of the decoder.                                              *)
(***************************************************************************)
IsDecode == call.fn \in {"decode_post_only_packet_data", "decode_limit_packet_data",
                         "decode_ioc_packet_data"}

\* the packet kind the called decoder decodes
OwnKind ==
    IF call.fn = "decode_post_only_packet_data" THEN "PostOnly"
    ELSE IF call.fn = "decode_limit_packet_data" THEN "Limit"
    ELSE "ImmediateOrCancel"

\* the message of the called decoder's catch-all match arm
MismatchMessage ==
    IF call.fn = "decode_ioc_packet_data" THEN "Invalid Immediate or Cancel packet"
    ELSE "Invalid Post-Only packet"

\* the called decoder was handed the unchanged encoding of a packet of its
\* own kind under the given schema
DecodedEncodingOf(schema) ==
    /\ IsDecode /\ wire.kind = OwnKind
    /\ wire.schema = schema /\ wire.change.op = "none"

FieldNames(fields) == {fields[i].name : i \in 1..Len(fields)}

TagMatches == bytes # <<>> /\ <<bytes[1]>> = TagOf(OwnKind)

CurrentParse == try_from_slice(Current(OwnKind), Tail(bytes))
DeprecatedParse == try_from_slice(Deprecated(OwnKind), Tail(bytes))

\* C7: decoding [tag] ++ the current encoding of p with the decoder of p's
\* kind succeeds and returns p, field by field, expiry fields included.
C7_CurrentRoundTrip ==
    DecodedEncodingOf("current") =>
        /\ decoded.status = "ok"
        /\ DOMAIN decoded.packet = FieldNames(Current(OwnKind))
        /\ \A name \in FieldNames(Current(OwnKind)) :
               decoded.packet[name] = wire.value[name]

\* an ImmediateOrCancel packet with a price, a match limit and both expiry
\* fields set, decoded
C7_Witness ==
    /\ DecodedEncodingOf("current") /\ OwnKind = "ImmediateOrCancel"
    /\ wire.value.price_in_ticks.some /\ wire.value.match_limit.some
    /\ wire.value.last_valid_slot.some
    /\ wire.value.last_valid_unix_timestamp_in_seconds.some
    /\ decoded = DecodedOk(wire.value)

\* C8: decoding [tag] ++ the deprecated encoding of d with the decoder of
\* d's kind succeeds and returns a current packet with both expiry fields
\* None and every other field equal to d's.
C8_LegacyUpgrade ==
    DecodedEncodingOf("deprecated") =>
        /\ decoded.status = "ok"
        /\ DOMAIN decoded.packet = FieldNames(Current(OwnKind))
        /\ decoded.packet.last_valid_slot = None
        /\ decoded.packet.last_valid_unix_timestamp_in_seconds = None
        /\ \A name \in FieldNames(Deprecated(OwnKind)) :
               decoded.packet[name] = wire.value[name]

\* a deprecated Limit packet with a match limit, upgraded
C8_Witness ==
    /\ DecodedEncodingOf("deprecated") /\ OwnKind = "Limit"
    /\ wire.value.match_limit.some
    /\ decoded.status = "ok"
    /\ decoded.packet.last_valid_slot = None
    /\ decoded.packet.self_trade_behavior = "DecrementTake"

\* C9: a decoder returns an error on the empty input, on an unknown first
\* byte and on the tag of another kind; on another kind's tag the error is
\* the same whatever the rest of the input.
C9_TagCheck ==
    IsDecode =>
        /\ bytes = <<>> => decoded = Err("anyhow", "Invalid packet")
        /\ (bytes # <<>> /\ bytes[1] >= Len(Variants("OrderPacketEnum"))) =>
               decoded = Err("borsh", "Unexpected variant index")
        /\ (bytes # <<>> /\ bytes[1] < Len(Variants("OrderPacketEnum"))
                /\ ~TagMatches) =>
               decoded = Err("anyhow", MismatchMessage)

\* the Limit decoder on a valid current Limit body behind the PostOnly tag
C9_Witness ==
    /\ call.fn = "decode_limit_packet_data"
    /\ wire.kind = "Limit" /\ wire.schema = "current"
    /\ wire.change = [op |-> "tag", byte |-> 0]
    /\ try_from_slice(LimitPacket, Tail(bytes)).ok
    /\ decoded.status = "err"

\* C10: when the tag matches and the body parses under the current schema
\* the decoder returns that parse; it returns a packet made from the
\* deprecated parse only when the current parse of the body failed.
C10_CurrentFirst ==
    (IsDecode /\ TagMatches) =>
        /\ CurrentParse.ok => decoded = DecodedOk(CurrentParse.value)
        /\ (decoded.status = "ok" /\ DeprecatedParse.ok
                /\ decoded.packet = WithNoExpiry(DeprecatedParse.value)) =>
               ~CurrentParse.ok

\* a current PostOnly body with one byte overwritten that still parses
\* under the current schema: the packet returned is the one in the bytes
C10_Witness ==
    /\ IsDecode /\ TagMatches /\ OwnKind = "PostOnly"
    /\ wire.schema = "current" /\ wire.change.op = "set"
    /\ CurrentParse.ok
    /\ decoded.status = "ok"
    /\ decoded.packet # wire.value
    /\ decoded.packet.last_valid_slot.some

\* the message the called decoder gives the failure of its current parse
\* (map_err): the one error text of the decoder that names the packet kind
KindMessage ==
    IF call.fn = "decode_post_only_packet_data" THEN "Invalid Post-Only packet"
    ELSE IF call.fn = "decode_limit_packet_data" THEN "Invalid Limit packet"
    ELSE "Invalid IOC packet"

NeitherSchemaParses == ~CurrentParse.ok /\ ~DeprecatedParse.ok

\* C11: when the tag matches and the body parses under neither schema, the
\* decoder returns an error that describes the packet kind.
C11_KindError ==
    (IsDecode /\ TagMatches /\ NeitherSchemaParses) =>
        decoded = Err("anyhow", KindMessage)

\* C12: in sell_quote over asks in ascending price order with positive
\* prices, once a level gives fewer base lots than its size, every later
\* level gives 0 and the remaining scaled budget stays as that level left it.
C12_LeftoverNeverSpent ==
    (ViaSellQuote /\ Ascending(ladder.asks) /\ PositivePrices(ladder.asks)) =>
        LET visited == SellQuoteWalk(ladder, call.size).visited
        IN  \A i \in 1..Len(visited) :
                visited[i].take < ladder.asks[i].size_in_base_lots =>
                    \A j \in (i + 1)..Len(visited) :
                        /\ visited[j].take = 0
                        /\ visited[j].remaining = visited[i].remaining

\* a first level bought in part, budget left, and a dearer second level
\* visited that gives nothing
C12_Witness ==
    /\ call.fn = "sell_quote" /\ PositivePrices(ladder.asks)
    /\ Len(ladder.asks) = 2
    /\ ladder.asks[1].price_in_ticks < ladder.asks[2].price_in_ticks
    /\ result.status = "ok" /\ result.base_lots_filled > 0
    /\ LET visited == SellQuoteWalk(ladder, call.size).visited
       IN  /\ Len(visited) = 2
           /\ visited[1].take > 0
           /\ visited[1].take < ladder.asks[1].size_in_base_lots
           /\ visited[1].remaining > 0
           /\ visited[2].take = 0
           /\ visited[2].remaining = visited[1].remaining

\* the two attempts of a decoder in the other order, once the tag has
\* matched: the deprecated parse is returned if it succeeded, the current
\* parse only otherwise
DeprecatedFirst(packet, deprecated_packet_result) ==
    IF deprecated_packet_result.ok
    THEN DecodedOk(WithNoExpiry(deprecated_packet_result.value))
    ELSE IF packet.ok THEN DecodedOk(packet.value)
    ELSE Err("borsh", deprecated_packet_result.msg)

\* C13: no body parses under both the current and the deprecated schema of
\* the kind its tag names (the inputs include bodies of every kind under
\* every tag), so a decoder whose tag check passed returns what it would
\* return with the deprecated schema attempted first.
C13_LayoutsExclusive ==
    (IsDecode /\ TagMatches) =>
        LET packet == CurrentParse
            deprecated_packet_result == DeprecatedParse
        IN  /\ ~(packet.ok /\ deprecated_packet_result.ok)
            /\ decoded = DeprecatedFirst(packet, deprecated_packet_result)

\* a current encoding with both expiry fields unset, cut by its two
\* presence bytes: a deprecated body, and only that
C13_Witness ==
    /\ IsDecode /\ TagMatches
    /\ wire.kind = OwnKind /\ wire.schema = "current"
    /\ wire.change = [op |-> "cut", n |-> 2]
    /\ DeprecatedParse.ok /\ ~CurrentParse.ok
    /\ decoded = DecodedOk(wire.value)

====
